---- MODULE Spec2Model ----
(***************************************************************************)
(* Model of the two containers of the repository:                          *)
(*   IntSet   (src/Assignment 2/IntSet.cpp)   a set of int on a dynamic    *)
(*            array (data, used, capacity);                                *)
(*   sequence (src/Assignment 3/Sequence.cpp) a sequence with a cursor     *)
(*            (data, used, current_index, capacity).                       *)
(* A buffer is a TLA+ sequence: C++ index i is position i+1.  Len(data) is *)
(* the allocated capacity, plus whatever a write past the end has touched. *)
(* The specifications share the variables:                                 *)
(*   Spec       one IntSet s under add / remove / reset / contains;        *)
(*   AlgSpec    two IntSets a, b and the const operations on the pair;     *)
(*   SeqSpec    one sequence q under its cursor operations;                *)
(*   ResizeSpec the private resize of both classes on objects s and q;     *)
(*   GrowSpec   objects s, s2 and q, q2 that differ in initial capacity    *)
(*              only and receive the same calls;                           *)
(*   CopySpec   two sequence objects x, y whose arrays live in heap, under *)
(*              the cursor operations, copy construction and assignment;   *)
(*   TravSpec   one sequence q under its operations and full traversals    *)
(*              (start, then advance while is_item).                       *)
(***************************************************************************)
EXTENDS Integers, Sequences, FiniteSets, TLC

VARIABLES s, a, b, res, q, last, s2, q2, heap, x, y

vars == <<s, a, b, res, q, last, s2, q2, heap, x, y>>

\* The variables of GrowSpec and CopySpec
twins == <<s2, q2, heap, x, y>>

\* ------------------------------------------------------------- bounds
MaxVal == 3          \* the int values handed to the operations are 1..MaxVal
MaxUsed == 3         \* add / insert / attach are taken while used < MaxUsed
MaxInitCap == 2      \* constructor arguments are drawn from -1..MaxInitCap

Values == 1..MaxVal
InitCaps == (-1)..MaxInitCap

\* ------------------------------------------------- memory conventions
\* IntSet.h is not among the sources; IntSet.cpp:64-67 speaks of "1 or
\* DEFAULT_CAPACITY" as the smallest array that is ever requested.
DEFAULT_CAPACITY == 1

\* Content of a slot of a new[] array that was never written.
Unwritten == 0

\* What a store past the end of the array leaves in memory: Intact (the
\* store landed in allocator slack and reads back) or any other int that
\* the allocator or a neighbouring object put there.
Intact == Unwritten
Heap == (-1)..MaxVal

\* new int[capacity]
NewArray(capacity) == [k \in 1..capacity |-> Unwritten]

\* data[i] as an rvalue
At(data, i) == IF i >= 0 /\ i < Len(data) THEN data[i + 1] ELSE Unwritten

\* data[i] = v on object S (a record with fields data and capacity)
Write(S, i, v, junk) ==
    LET stored == IF i < S.capacity \/ junk = Intact THEN v ELSE junk
        d == IF i < Len(S.data)
             THEN S.data
             ELSE S.data \o [k \in 1..(i + 1 - Len(S.data)) |-> Unwritten]
    IN [S EXCEPT !.data = [d EXCEPT ![i + 1] = stored]]

\* The values stored in data[0 .. used-1]
Elems(S) == {At(S.data, i) : i \in 0..(S.used - 1)}

\* data[0 .. used-1] as a sequence
Content(S) == [k \in 1..S.used |-> At(S.data, k - 1)]

NoDup(S) == \A i, j \in 0..(S.used - 1) : At(S.data, i) = At(S.data, j) => i = j

\* A sequence without its entries equal to v
RECURSIVE Without(_, _)
Without(sq, v) ==
    IF sq = <<>> THEN <<>>
    ELSE IF Head(sq) = v THEN Without(Tail(sq), v)
    ELSE <<Head(sq)>> \o Without(Tail(sq), v)

\* ------------------------------------------------------------ IntSet
RECURSIVE copyInto(_, _, _, _, _)
\* for (i = from; i < n; i++) D.data[i] = src[i];
copyInto(D, src, i, n, junk) ==
    IF i < n THEN copyInto(Write(D, i, At(src, i), junk), src, i + 1, n, junk)
    ELSE D

\* resize that allocates the new array and forgets to copy the old one
resize_nocopy(S, new_capacity, junk) ==
    LET c1 == IF new_capacity < S.used THEN S.used ELSE new_capacity
        c2 == IF c1 < DEFAULT_CAPACITY THEN DEFAULT_CAPACITY ELSE c1
    IN [S EXCEPT !.capacity = c2, !.data = NewArray(c2)]

\* resize that takes a new_capacity below used as it is
resize_noclamp(S, new_capacity, junk) ==
    LET c2 == IF new_capacity < DEFAULT_CAPACITY THEN DEFAULT_CAPACITY ELSE new_capacity
        fresh == [S EXCEPT !.capacity = c2, !.data = NewArray(c2)]
    IN copyInto(fresh, S.data, 0, S.used, junk)

\* IntSet::resize
resize(S, new_capacity, junk) ==
    LET c1 == IF new_capacity < S.used THEN S.used ELSE new_capacity
        c2 == IF c1 < DEFAULT_CAPACITY THEN DEFAULT_CAPACITY ELSE c1
        fresh == [S EXCEPT !.capacity = c2, !.data = NewArray(c2)]
    IN copyInto(fresh, S.data, 0, S.used, junk)

\* IntSet::IntSet(int initial_capacity)
IntSetCtor(initial_capacity) ==
    LET c == IF initial_capacity < 1 THEN DEFAULT_CAPACITY ELSE initial_capacity
    IN [data |-> NewArray(c), used |-> 0, capacity |-> c]

\* IntSet::operator=, seen from the left-hand side
assign(rhs, junk) ==
    copyInto([data |-> NewArray(rhs.capacity), used |-> rhs.used,
              capacity |-> rhs.capacity],
             rhs.data, 0, rhs.used, junk)

size(S) == S.used

isEmpty(S) == size(S) = 0

RECURSIVE containsLoop(_, _, _, _)
\* while (found != true && index < used) { found = (data[index] == anInt); index++; }
containsLoop(S, anInt, found, index) ==
    IF found /= TRUE /\ index < S.used
    THEN containsLoop(S, anInt, At(S.data, index) = anInt, index + 1)
    ELSE found

\* IntSet::contains; found0 is what the uninitialized local found holds
contains(S, anInt, found0) ==
    IF isEmpty(S) THEN FALSE ELSE containsLoop(S, anInt, found0, 0)

\* IntSet::add
add(S, anInt, junk) ==
    IF isEmpty(S)
    THEN [ret |-> TRUE, set |-> [Write(S, S.used, anInt, junk) EXCEPT !.used = @ + 1]]
    ELSE LET S1 == IF S.used >= S.capacity
                   THEN resize(S, (3 * S.capacity) \div 2 + 1, junk)
                   ELSE S
         IN [ret |-> TRUE,
             set |-> [Write(S1, S1.used, anInt, junk) EXCEPT !.used = @ + 1]]

RECURSIVE shiftLeft(_, _, _)
\* for (j = i; j < used - 1; j++) data[j] = data[j + 1];
shiftLeft(S, j, junk) ==
    IF j < S.used - 1
    THEN shiftLeft(Write(S, j, At(S.data, j + 1), junk), j + 1, junk)
    ELSE S

RECURSIVE removeLoop(_, _, _, _)
\* remove whose search loop drops the last slot when it finds nothing
removeLoop_droplast(S, anInt, i, junk) ==
    IF i < S.used
    THEN IF At(S.data, i) = anInt
         THEN [ret |-> TRUE, set |-> [shiftLeft(S, i, junk) EXCEPT !.used = @ - 1]]
         ELSE removeLoop(S, anInt, i + 1, junk)
    ELSE [ret |-> FALSE, set |-> [S EXCEPT !.used = @ - 1]]

\* IntSet::remove, from its search loop on
removeLoop(S, anInt, i, junk) ==
    IF i < S.used
    THEN IF At(S.data, i) = anInt
         \* copy(data + i, data + used, data + i) copies each slot onto itself
         THEN [ret |-> TRUE, set |-> [shiftLeft(S, i, junk) EXCEPT !.used = @ - 1]]
         ELSE removeLoop(S, anInt, i + 1, junk)
    ELSE [ret |-> FALSE, set |-> S]

\* IntSet::remove
remove(S, anInt, found0, junk) ==
    IF ~contains(S, anInt, found0) \/ isEmpty(S)
    THEN [ret |-> FALSE, set |-> S]
    ELSE removeLoop(S, anInt, 0, junk)

\* IntSet::reset
reset(S) == [S EXCEPT !.used = 0]

RECURSIVE subsetLoop(_, _, _, _, _)
\* for (i = 0; i < used; i++) { found = other.contains(data[i]); ... break; }
\* g[i + 1] is what found holds on entry to the i-th call of contains
subsetLoop(S, T, isSubset, i, g) ==
    IF i < S.used
    THEN IF contains(T, At(S.data, i), g[i + 1])
         THEN subsetLoop(S, T, TRUE, i + 1, g)
         ELSE FALSE
    ELSE isSubset

\* IntSet::isSubsetOf.  The local isSubset is assigned on every path: the
\* loop runs at least once, used being at least 1 in the last branch.
isSubsetOf(S, T, g) ==
    IF isEmpty(S) THEN TRUE
    ELSE IF S.used > T.used THEN FALSE
    ELSE subsetLoop(S, T, FALSE, 0, g)

RECURSIVE intersectLoop(_, _, _, _, _, _, _)
\* for (i < used) for (j < other.used) if (data[i] == other.data[j])
\*    { intersection.data[foundAlike] = other.data[j]; foundAlike++; }
intersectLoop(I, S, T, i, j, foundAlike, junk) ==
    IF i >= S.used THEN [I EXCEPT !.used = foundAlike]
    ELSE IF j >= T.used THEN intersectLoop(I, S, T, i + 1, 0, foundAlike, junk)
    ELSE IF At(S.data, i) = At(T.data, j)
         THEN intersectLoop(Write(I, foundAlike, At(T.data, j), junk),
                            S, T, i, j + 1, foundAlike + 1, junk)
         ELSE intersectLoop(I, S, T, i, j + 1, foundAlike, junk)

\* IntSet::intersect; the local is returned as it is (no copy on return)
intersect(S, T, junk) ==
    LET intersection == [IntSetCtor(DEFAULT_CAPACITY) EXCEPT !.used = S.used]
    IN IF isEmpty(T) THEN [intersection EXCEPT !.used = T.used]
       ELSE intersectLoop(intersection, S, T, 0, 0, 0, junk)

RECURSIVE subtractLoop(_, _, _, _, _, _)
\* for (i < diff.used) for (j < other.used)
\*    if (diff.data[i] == other.data[j]) diff.remove(diff.data[i]);
subtractLoop(diff, T, i, j, found0, junk) ==
    IF i >= diff.used THEN diff
    ELSE IF j >= T.used THEN subtractLoop(diff, T, i + 1, 0, found0, junk)
    ELSE IF At(diff.data, i) = At(T.data, j)
         THEN subtractLoop(remove(diff, At(diff.data, i), found0, junk).set,
                           T, i, j + 1, found0, junk)
         ELSE subtractLoop(diff, T, i, j + 1, found0, junk)

\* IntSet::subtract
subtract(S, T, found0, junk) ==
    LET diff0 == [IntSetCtor(DEFAULT_CAPACITY) EXCEPT !.used = S.used]
        diff == copyInto(diff0, S.data, 0, S.used, junk)
    IN IF isEmpty(T) THEN diff
       ELSE subtractLoop(diff, T, 0, 0, found0, junk)

RECURSIVE appendAll(_, _, _, _, _)
\* for (i < src.used) { unionSet.data[counter] = src.data[i]; counter++; }
appendAll(U, src, i, counter, junk) ==
    IF i < src.used
    THEN appendAll(Write(U, counter, At(src.data, i), junk), src, i + 1, counter + 1, junk)
    ELSE U

\* IntSet::unionWith
unionWith(S, T, found0, junk) ==
    LET intersectSet == assign(intersect(S, T, junk), junk)
        diffSetA == assign(subtract(S, T, found0, junk), junk)
        diffSetB == assign(subtract(T, S, found0, junk), junk)
        unionSet == [IntSetCtor(DEFAULT_CAPACITY) EXCEPT
                        !.used = intersectSet.used + diffSetA.used + diffSetB.used]
        u1 == appendAll(unionSet, intersectSet, 0, 0, junk)
        u2 == appendAll(u1, diffSetA, 0, intersectSet.used, junk)
    IN appendAll(u2, diffSetB, 0, intersectSet.used + diffSetA.used, junk)

\* operator==(const IntSet&, const IntSet&); same0 is what the
\* uninitialized local same holds
operator_eq(is1, is2, g1, g2, same0) ==
    IF isEmpty(is1) /\ isEmpty(is2) THEN TRUE
    ELSE IF size(is1) /= size(is2) THEN FALSE
    ELSE IF isSubsetOf(is1, is2, g1) /\ isSubsetOf(is2, is1, g2) THEN TRUE
    ELSE same0

\* ------------------------------------------------- state and actions
NoSet == IntSetCtor(DEFAULT_CAPACITY)
NoSeq == [data |-> NewArray(1), used |-> 0, current_index |-> 0, capacity |-> 1]

Call(op, arg, ret, pre) == [op |-> op, arg |-> arg, ret |-> ret, pre |-> pre]

\* A sequence object whose array is heap[buf]
NoObj(buf) == [buf |-> buf, used |-> 0, current_index |-> 0, capacity |-> 1]

\* The variables of GrowSpec and CopySpec where they are not used
TwinsIdle ==
    /\ s2 = NoSet /\ q2 = NoSeq
    /\ heap = <<NewArray(1), NewArray(1)>> /\ x = NoObj(1) /\ y = NoObj(2)

\* --- Spec: one IntSet under its mutators
Init ==
    /\ \E c \in InitCaps : s = IntSetCtor(c)
    /\ a = NoSet /\ b = NoSet /\ res = NoSet /\ q = NoSeq /\ TwinsIdle
    /\ last = Call("new", 0, FALSE, NoSet)

Add ==
    \E v \in Values, junk \in Heap :
        /\ s.used < MaxUsed
        /\ LET r == add(s, v, junk)
           IN /\ s' = r.set
              /\ last' = Call("add", v, r.ret, s)
        /\ UNCHANGED <<a, b, res, q, twins>>

Remove ==
    \E v \in Values, found0 \in BOOLEAN, junk \in Heap :
        /\ LET r == remove(s, v, found0, junk)
           IN /\ s' = r.set
              /\ last' = Call("remove", v, r.ret, s)
        /\ UNCHANGED <<a, b, res, q, twins>>

Reset ==
    /\ s' = reset(s)
    /\ last' = Call("reset", 0, FALSE, s)
    /\ UNCHANGED <<a, b, res, q, twins>>

Contains ==
    \E v \in Values, found0 \in BOOLEAN :
        /\ last' = Call("contains", v, contains(s, v, found0), s)
        /\ UNCHANGED <<s, a, b, res, q, twins>>

Next == Add \/ Remove \/ Reset \/ Contains

Spec == Init /\ [][Next]_vars

\* --- AlgSpec: the const operations on a pair of IntSets
Contents == UNION {[1..n -> Values] : n \in 0..MaxUsed}

RECURSIVE Build(_, _)
\* The IntSet a program has after IntSet S; S.add(c[1]); ... S.add(c[n]);
Build(S, c) == IF c = <<>> THEN S ELSE Build(add(S, Head(c), Intact).set, Tail(c))

Operands == {Build(IntSetCtor(DEFAULT_CAPACITY), c) : c \in Contents}

AlgInit ==
    /\ a \in Operands /\ b \in Operands
    /\ s = NoSet /\ res = NoSet /\ q = NoSeq /\ TwinsIdle
    /\ last = Call("new", 0, FALSE, NoSet)

IsSubsetOf ==
    \E g \in [1..a.used -> BOOLEAN] :
        /\ last' = Call("isSubsetOf", 0, isSubsetOf(a, b, g), NoSet)
        /\ res' = NoSet
        /\ UNCHANGED <<s, a, b, q, twins>>

Equal ==
    \E g1 \in [1..a.used -> BOOLEAN], g2 \in [1..b.used -> BOOLEAN], same0 \in BOOLEAN :
        /\ last' = Call("equal", 0, operator_eq(a, b, g1, g2, same0), NoSet)
        /\ res' = NoSet
        /\ UNCHANGED <<s, a, b, q, twins>>

Intersect ==
    \E junk \in Heap :
        /\ res' = intersect(a, b, junk)
        /\ last' = Call("intersect", junk, FALSE, NoSet)
        /\ UNCHANGED <<s, a, b, q, twins>>

Subtract ==
    \E found0 \in BOOLEAN, junk \in Heap :
        /\ res' = subtract(a, b, found0, junk)
        /\ last' = Call("subtract", junk, FALSE, NoSet)
        /\ UNCHANGED <<s, a, b, q, twins>>

UnionWith ==
    \E found0 \in BOOLEAN, junk \in Heap :
        /\ res' = unionWith(a, b, found0, junk)
        /\ last' = Call("unionWith", junk, FALSE, NoSet)
        /\ UNCHANGED <<s, a, b, q, twins>>

AlgNext == IsSubsetOf \/ Equal \/ Intersect \/ Subtract \/ UnionWith

AlgSpec == AlgInit /\ [][AlgNext]_vars

\* ---------------------------------------------------------- sequence
\* data[i] as an rvalue where the slot may lie past the array or may never
\* have been written: the value read is then indeterminate
Read(S, i, junk) ==
    IF i < S.capacity /\ At(S.data, i) /= Unwritten THEN At(S.data, i) ELSE junk

\* sequence::sequence(size_type initial_capacity)
sequenceCtor(initial_capacity) ==
    LET c == IF initial_capacity = 0 THEN 1 ELSE initial_capacity
    IN [data |-> NewArray(c), used |-> 0, current_index |-> 0, capacity |-> c]

\* sequence::resize that allocates the new array and does not copy
sequence_resize_nocopy(Q, new_capacity, junk) ==
    LET c1 == IF new_capacity < Q.used THEN Q.used ELSE new_capacity
        c2 == IF c1 <= 0 THEN 1 ELSE c1
    IN [Q EXCEPT !.capacity = c2, !.data = NewArray(c2)]

\* sequence::resize
sequence_resize(Q, new_capacity, junk) ==
    LET c1 == IF new_capacity < Q.used THEN Q.used ELSE new_capacity
        c2 == IF c1 <= 0 THEN 1 ELSE c1
        fresh == [Q EXCEPT !.capacity = c2, !.data = NewArray(c2)]
    IN copyInto(fresh, Q.data, 0, Q.used, junk)

\* is_item that always reports a current item
is_item_always(Q) == TRUE

\* sequence::is_item
is_item(Q) == IF Q.current_index = Q.used THEN FALSE ELSE TRUE

\* sequence::current (past its assertion)
current(Q) == At(Q.data, Q.current_index)

\* start that leaves the cursor where it is
start_keep(Q) == Q

\* sequence::start
start(Q) == [Q EXCEPT !.current_index = 0]

\* advance that wraps to the first item after the last one
advance_wrap(Q) ==
    IF ~(Q.current_index /= Q.used) THEN [Q EXCEPT !.current_index = Q.used]
    ELSE IF Q.current_index = Q.used - 1 THEN [Q EXCEPT !.current_index = 0]
    ELSE [Q EXCEPT !.current_index = @ + 1]

\* advance that increments current_index whatever it is
advance_unchecked(Q) == [Q EXCEPT !.current_index = @ + 1]

\* sequence::advance
advance(Q) ==
    IF ~is_item(Q) THEN [Q EXCEPT !.current_index = Q.used]
    ELSE [Q EXCEPT !.current_index = @ + 1]

RECURSIVE shiftRight(_, _, _)
\* while (i > current_index) { data[i] = data[i - 1]; i--; }
shiftRight(Q, i, junk) ==
    IF i > Q.current_index
    THEN shiftRight(Write(Q, i, At(Q.data, i - 1), junk), i - 1, junk)
    ELSE Q

\* Growth of a full sequence: size_type((1.25 * capacity) + 1)
grown(Q, junk) ==
    IF Q.used = Q.capacity
    THEN sequence_resize(Q, (5 * Q.capacity) \div 4 + 1, junk)
    ELSE Q

\* insert that leaves current_index alone when there is no current item
insert_noreset(Q, entry, junk) ==
    LET Q1 == grown(Q, junk)
        Q3 == shiftRight(Q1, Q1.used, junk)
        Q4 == [Q3 EXCEPT !.used = @ + 1]
    IN Write(Q4, Q4.current_index, entry, junk)

\* sequence::insert
insert(Q, entry, junk) ==
    LET Q1 == grown(Q, junk)
        Q2 == IF Q1.current_index = Q1.used THEN [Q1 EXCEPT !.current_index = 0] ELSE Q1
        Q3 == shiftRight(Q2, Q2.used, junk)
        Q4 == [Q3 EXCEPT !.used = @ + 1]
    IN Write(Q4, Q4.current_index, entry, junk)

\* attach that puts the entry where the current item is (as insert does)
attach_before(Q, entry, junk) ==
    LET Q1 == grown(Q, junk)
        Q3 == shiftRight(Q1, Q1.used, junk)
        Q4 == [Q3 EXCEPT !.used = @ + 1]
    IN Write(Q4, Q4.current_index, entry, junk)

\* sequence::attach
attach(Q, entry, junk) ==
    LET Q1 == grown(Q, junk)
    IN IF Q1.current_index = Q1.used
       THEN [Write(Q1, Q1.current_index, entry, junk) EXCEPT !.used = @ + 1]
       ELSE IF Q1.current_index = Q1.used - 1
       THEN LET Q2 == [Q1 EXCEPT !.current_index = @ + 1, !.used = @ + 1]
            IN Write(Q2, Q2.current_index, entry, junk)
       ELSE LET Q2 == shiftRight(Q1, Q1.used, junk)
                Q3 == [Q2 EXCEPT !.current_index = @ + 1, !.used = @ + 1]
            IN Write(Q3, Q3.current_index, entry, junk)

RECURSIVE closeGap(_, _, _)
\* for (i = current_index; i < used; i++) data[i] = data[i + 1];
closeGap(Q, i, junk) ==
    IF i < Q.used
    THEN closeGap(Write(Q, i, Read(Q, i + 1, junk), junk), i + 1, junk)
    ELSE Q

\* remove_current that always drops the last slot without closing the gap
remove_current_noshift(Q, junk) ==
    IF Q.current_index = Q.used - 1
    THEN [Q EXCEPT !.used = Q.used - 1, !.current_index = Q.used - 1]
    ELSE [Q EXCEPT !.used = @ - 1]

\* sequence::remove_current (past its assertion)
remove_current(Q, junk) ==
    IF Q.current_index = Q.used - 1
    THEN [Q EXCEPT !.used = Q.used - 1, !.current_index = Q.used - 1]
    ELSE [closeGap(Q, Q.current_index, junk) EXCEPT !.used = @ - 1]

\* --- SeqSpec: one sequence under its cursor operations
SeqInit ==
    /\ \E c \in 0..MaxInitCap : q = sequenceCtor(c)
    /\ s = NoSet /\ a = NoSet /\ b = NoSet /\ res = NoSet /\ TwinsIdle
    /\ last = Call("new", 0, 0, NoSeq)

\* A failed assert ends the program
Running == last.op /= "abort"

Start ==
    /\ Running
    /\ q' = start(q)
    /\ last' = Call("start", 0, 0, q)
    /\ UNCHANGED <<s, a, b, res, twins>>

Advance ==
    /\ Running
    /\ q' = advance(q)
    /\ last' = Call("advance", 0, 0, q)
    /\ UNCHANGED <<s, a, b, res, twins>>

Insert ==
    \E entry \in Values, junk \in Heap :
        /\ Running
        /\ q.used < MaxUsed
        /\ q' = insert(q, entry, junk)
        /\ last' = Call("insert", entry, 0, q)
        /\ UNCHANGED <<s, a, b, res, twins>>

Attach ==
    \E entry \in Values, junk \in Heap :
        /\ Running
        /\ q.used < MaxUsed
        /\ q' = attach(q, entry, junk)
        /\ last' = Call("attach", entry, 0, q)
        /\ UNCHANGED <<s, a, b, res, twins>>

RemoveCurrent ==
    \E junk \in Heap :
        /\ Running
        /\ IF is_item(q)
           THEN /\ q' = remove_current(q, junk)
                /\ last' = Call("remove_current", 0, 0, q)
           ELSE /\ q' = q
                /\ last' = Call("abort", 0, 0, q)
        /\ UNCHANGED <<s, a, b, res, twins>>

Current ==
    /\ Running
    /\ IF is_item(q)
       THEN last' = Call("current", 0, current(q), q)
       ELSE last' = Call("abort", 0, 0, q)
    /\ UNCHANGED <<s, a, b, res, q, twins>>

SeqNext == Start \/ Advance \/ Insert \/ Attach \/ RemoveCurrent \/ Current

SeqSpec == SeqInit /\ [][SeqNext]_vars

\* ------------------------------------------------------------ claims
Pre == last.pre

\* C1: add(v) of a value that is already a member changes nothing: size()
\* and the stored elements with their order stay, contains(v) stays true.
C1_AddMemberNoChange ==
    (last.op = "add" /\ last.arg \in Elems(Pre)) =>
        /\ s.used = Pre.used
        /\ Content(s) = Content(Pre)
        /\ \A found0 \in BOOLEAN : contains(s, last.arg, found0)

\* C2: in every state reached by add, remove and reset no value occurs
\* twice among data[0 .. used-1].
C2_NoDuplicates == NoDup(s)

\* C3: add(v) of a value that is not a member returns true, makes
\* contains(v) true, raises size() by exactly 1, stores v in data[used-1]
\* and keeps the earlier elements in place, with or without growth.
C3_AddNew ==
    (last.op = "add" /\ last.arg \notin Elems(Pre)) =>
        /\ last.ret = TRUE
        /\ \A found0 \in BOOLEAN : contains(s, last.arg, found0)
        /\ s.used = Pre.used + 1
        /\ At(s.data, s.used - 1) = last.arg
        /\ SubSeq(Content(s), 1, Pre.used) = Content(Pre)

\* An add of a new value to a full set of two elements, which had to grow
C3_Witness ==
    /\ last.op = "add" /\ last.arg \notin Elems(Pre)
    /\ Pre.used = 2 /\ Pre.used = Pre.capacity
    /\ s.capacity > Pre.capacity

\* C4: remove(v) of a member returns true, afterwards contains(v) is
\* false, size() is one less and the other members keep their order.
C4_RemoveMember ==
    (last.op = "remove" /\ last.arg \in Elems(Pre)) =>
        /\ last.ret = TRUE
        /\ \A found0 \in BOOLEAN : ~contains(s, last.arg, found0)
        /\ s.used = Pre.used - 1
        /\ Content(s) = Without(Content(Pre), last.arg)

\* C5: for duplicate-free S and T, S.subtract(T) holds exactly the
\* elements of S that are not in T.  Stated for the calls in which every
\* store past the end of the one-slot array of the result reads back
\* intact, the memory behaviour most favourable to the claim.
C5_Subtract ==
    (last.op = "subtract" /\ last.arg = Intact /\ NoDup(a) /\ NoDup(b)) =>
        Elems(res) = Elems(a) \ Elems(b)

\* C6: for duplicate-free S and T, S.unionWith(T) holds exactly the
\* elements of S or T, each once.  Stated, as C5 is, for the calls in which
\* every store past the end of an array reads back intact.
C6_UnionWith ==
    (last.op = "unionWith" /\ last.arg = Intact /\ NoDup(a) /\ NoDup(b)) =>
        /\ Elems(res) = Elems(a) \cup Elems(b)
        /\ NoDup(res)
        /\ res.used = Cardinality(Elems(a) \cup Elems(b))

\* C7: for duplicate-free S and T, S.intersect(T) holds exactly the
\* elements of both, each once, and is empty when S or T is empty.
C7_Intersect ==
    (last.op = "intersect" /\ NoDup(a) /\ NoDup(b)) =>
        /\ Elems(res) = Elems(a) \cap Elems(b)
        /\ NoDup(res)
        /\ (a.used = 0 \/ b.used = 0) => res.used = 0

\* C8: S.isSubsetOf(T) is true exactly when every element of S is found
\* in T; an empty S is a subset of every T, and S of itself.
C8_IsSubsetOf ==
    last.op = "isSubsetOf" => (last.ret <=> Elems(a) \subseteq Elems(b))

\* C9: a == b is a definite boolean, true exactly when a and b have the
\* same size and are subsets of each other.
C9_Equal ==
    last.op = "equal" =>
        (last.ret <=> (a.used = b.used /\ Elems(a) \subseteq Elems(b)
                                       /\ Elems(b) \subseteq Elems(a)))

\* C10: insert(entry) puts the entry at the index of the current item, or
\* at index 0 without one; the elements from there on move right by one,
\* the ones before stay, used grows by 1, the entry is the current item.
C10_Insert ==
    last.op = "insert" =>
        LET c == IF is_item(Pre) THEN Pre.current_index ELSE 0
        IN /\ q.used = Pre.used + 1
           /\ q.current_index = c
           /\ is_item(q) /\ current(q) = last.arg
           /\ Content(q) = SubSeq(Content(Pre), 1, c) \o <<last.arg>>
                               \o SubSeq(Content(Pre), c + 1, Pre.used)

\* An insert before a current item that has elements on both sides, into
\* a full array
C10_Witness ==
    /\ last.op = "insert"
    /\ is_item(Pre) /\ Pre.current_index = 1 /\ Pre.used = 2
    /\ Pre.used = Pre.capacity /\ q.capacity > Pre.capacity
    /\ At(q.data, 0) /= last.arg /\ At(q.data, 2) /= last.arg

\* C11: attach(entry) puts the entry right after the current item, or at
\* index used without one; the elements after that place move right by
\* one, the ones up to the old current item stay, used grows by 1 and the
\* entry is the current item.
C11_Attach ==
    last.op = "attach" =>
        LET c == IF Pre.current_index /= Pre.used THEN Pre.current_index + 1
                 ELSE Pre.used
        IN /\ q.used = Pre.used + 1
           /\ q.current_index = c
           /\ q.current_index /= q.used /\ At(q.data, q.current_index) = last.arg
           /\ Content(q) = SubSeq(Content(Pre), 1, c) \o <<last.arg>>
                               \o SubSeq(Content(Pre), c + 1, Pre.used)

\* An attach after a current item that is not the last one, into a full
\* array
C11_Witness ==
    /\ last.op = "attach"
    /\ Pre.current_index = 0 /\ Pre.used = 2
    /\ Pre.used = Pre.capacity /\ q.capacity > Pre.capacity
    /\ At(q.data, 0) /= last.arg /\ At(q.data, 2) /= last.arg

\* C12: remove_current() with the current item at index c removes that
\* element alone: the elements before c stay, the ones after c move left
\* by one, used drops by 1 and current_index stays c (which is used, no
\* current item, when the last element was removed).
C12_RemoveCurrent ==
    last.op = "remove_current" =>
        LET c == Pre.current_index
        IN /\ c < Pre.used
           /\ q.used = Pre.used - 1
           /\ q.current_index = c
           /\ Content(q) = SubSeq(Content(Pre), 1, c)
                               \o SubSeq(Content(Pre), c + 2, Pre.used)
           /\ (c = Pre.used - 1) => q.current_index = q.used
           /\ (c < Pre.used - 1) => At(q.data, c) = At(Pre.data, c + 1)

\* A removal of the first of three distinct elements from a full array
C12_Witness ==
    /\ last.op = "remove_current"
    /\ Pre.current_index = 0 /\ Pre.used = 3 /\ Pre.used = Pre.capacity
    /\ At(Pre.data, 0) /= At(Pre.data, 1) /\ At(Pre.data, 1) /= At(Pre.data, 2)

\* C13: advance() with a current item: from the last element the sequence
\* has no current item afterwards (current_index = used), otherwise
\* current_index grows by one; used and the elements stay as they were.
C13_Advance ==
    (last.op = "advance" /\ Pre.current_index /= Pre.used) =>
        /\ q.used = Pre.used /\ q.data = Pre.data /\ q.capacity = Pre.capacity
        /\ IF Pre.current_index = Pre.used - 1
           THEN q.current_index = q.used /\ ~is_item(q)
           ELSE q.current_index = Pre.current_index + 1 /\ is_item(q)

\* An advance from the last of three elements
C13_Witness ==
    /\ last.op = "advance"
    /\ Pre.used = 3 /\ Pre.current_index = 2
    /\ q.current_index = 3

\* C16: current() and remove_current() without a current item end in a
\* failed assertion and leave used, current_index and the elements as they
\* were; current() with a current item returns data[current_index] and
\* changes nothing.
C16_NoCurrentItem ==
    /\ (last.op \in {"remove_current", "current", "abort"}
            /\ Pre.current_index = Pre.used) =>
           (last.op = "abort" /\ q = Pre)
    /\ last.op = "abort" => Pre.current_index = Pre.used
    /\ last.op = "current" =>
           (q = Pre /\ last.ret = At(Pre.data, Pre.current_index))

\* A failed assertion on a sequence of two elements whose cursor is past
\* the last one
C16_Witness ==
    /\ last.op = "abort"
    /\ Pre.used = 2 /\ Pre.current_index = 2

\* C17: remove(v) of a value that is not a member, the empty set included,
\* returns false and leaves used, capacity and the elements as they were.
C17_RemoveAbsent ==
    (last.op = "remove" /\ last.arg \notin Elems(Pre)) =>
        (last.ret = FALSE /\ s = Pre)

\* A remove of an absent value from a set of two elements
C17_Witness ==
    /\ last.op = "remove" /\ last.arg \notin Elems(Pre)
    /\ Pre.used = 2

\* used, capacity and the extent of the stores of an IntSet
Bounded(S) ==
    /\ S.capacity >= 1
    /\ 0 <= S.used /\ S.used <= S.capacity
    /\ Len(S.data) = S.capacity

\* C18: every IntSet, the results of unionWith, intersect and subtract
\* included, has capacity >= 1 and 0 <= used <= capacity, and nothing is
\* stored at an index >= capacity.
C18_WithinCapacity == Bounded(a) /\ Bounded(b) /\ Bounded(res)

\* --- ResizeSpec: the private resize of the two classes as a function of
\* the object and of new_capacity
RECURSIVE SeqBuild(_, _)
\* The sequence a program has after Q.attach(c[1]); ... Q.attach(c[n]);
SeqBuild(Q, c) ==
    IF c = <<>> THEN Q ELSE SeqBuild(attach(Q, Head(c), Intact), Tail(c))

RECURSIVE Advanced(_, _)
\* Q after k calls of advance
Advanced(Q, k) == IF k = 0 THEN Q ELSE Advanced(advance(Q), k - 1)

SetOperands == {Build(IntSetCtor(c), cont) : c \in InitCaps, cont \in Contents}

SeqOperands ==
    {Advanced(start(SeqBuild(sequenceCtor(c), cont)), k) :
        c \in 0..MaxInitCap, cont \in Contents, k \in 0..MaxUsed}

\* The values of new_capacity: below, at and above used
NewCaps == 0..(MaxUsed + 2)

ResizeInit ==
    /\ \/ s \in SetOperands /\ q = NoSeq
       \/ s = NoSet /\ q \in SeqOperands
    /\ a = NoSet /\ b = NoSet /\ res = NoSet /\ TwinsIdle
    /\ last = Call("new", 0, 0, NoSet)

ResizeSet ==
    \E n \in NewCaps \cup {-1}, junk \in Heap :
        /\ res' = resize(s, n, junk)
        /\ last' = Call("resize", n, 0, s)
        /\ UNCHANGED <<s, a, b, q, twins>>

ResizeSeq ==
    \E n \in NewCaps, junk \in Heap :
        /\ q2' = sequence_resize(q, n, junk)
        /\ last' = Call("sequence_resize", n, 0, q)
        /\ UNCHANGED <<s, a, b, res, q, s2, heap, x, y>>

ResizeNext == ResizeSet \/ ResizeSeq

ResizeSpec == ResizeInit /\ [][ResizeNext]_vars

Max3(i, j, k) ==
    IF i >= j /\ i >= k THEN i ELSE IF j >= k THEN j ELSE k

\* C20: resize(new_capacity), of IntSet and of sequence, sets capacity to
\* the largest of new_capacity, used and the minimum capacity, and leaves
\* used, the elements data[0 .. used-1] and current_index as they were.
C20_Resize ==
    /\ last.op = "resize" =>
           /\ res.capacity = Max3(last.arg, Pre.used, DEFAULT_CAPACITY)
           /\ Len(res.data) = res.capacity
           /\ res.used = Pre.used
           /\ Content(res) = Content(Pre)
    /\ last.op = "sequence_resize" =>
           /\ q2.capacity = Max3(last.arg, Pre.used, 1)
           /\ Len(q2.data) = q2.capacity
           /\ q2.used = Pre.used
           /\ Content(q2) = Content(Pre)
           /\ q2.current_index = Pre.current_index

\* A resize of a set of three elements to a capacity of one
C20_Witness ==
    /\ last.op = "resize"
    /\ Pre.used = 3 /\ last.arg = 1 /\ Pre.capacity > 3
    /\ res.capacity = 3

\* --- GrowSpec: a program that constructs two objects of one class, s with
\* any initial capacity and s2 with room for every element (q and q2 for
\* the sequence), and hands every call to both
Roomy == MaxUsed + 1

GrowInit ==
    /\ \/ /\ \E c \in InitCaps : s = IntSetCtor(c)
          /\ s2 = IntSetCtor(Roomy)
          /\ q = NoSeq /\ q2 = NoSeq
          /\ last = Call("new", 0, 0, "IntSet")
       \/ /\ \E c \in 0..MaxInitCap : q = sequenceCtor(c)
          /\ q2 = sequenceCtor(Roomy)
          /\ s = NoSet /\ s2 = NoSet
          /\ last = Call("new", 0, 0, "sequence")
    /\ a = NoSet /\ b = NoSet /\ res = NoSet
    /\ heap = <<NewArray(1), NewArray(1)>> /\ x = NoObj(1) /\ y = NoObj(2)

GrowAdd ==
    \E v \in Values, junk \in Heap, junk2 \in Heap :
        /\ last.pre = "IntSet"
        /\ s.used < MaxUsed
        /\ s' = add(s, v, junk).set
        /\ s2' = add(s2, v, junk2).set
        /\ last' = Call("add", v, 0, "IntSet")
        /\ UNCHANGED <<a, b, res, q, q2, heap, x, y>>

GrowStart ==
    /\ last.pre = "sequence" /\ Running
    /\ q' = start(q) /\ q2' = start(q2)
    /\ last' = Call("start", 0, 0, "sequence")
    /\ UNCHANGED <<s, a, b, res, s2, heap, x, y>>

GrowAdvance ==
    /\ last.pre = "sequence" /\ Running
    /\ q' = advance(q) /\ q2' = advance(q2)
    /\ last' = Call("advance", 0, 0, "sequence")
    /\ UNCHANGED <<s, a, b, res, s2, heap, x, y>>

GrowInsert ==
    \E entry \in Values, junk \in Heap, junk2 \in Heap :
        /\ last.pre = "sequence" /\ Running
        /\ q.used < MaxUsed
        /\ q' = insert(q, entry, junk) /\ q2' = insert(q2, entry, junk2)
        /\ last' = Call("insert", entry, 0, "sequence")
        /\ UNCHANGED <<s, a, b, res, s2, heap, x, y>>

GrowAttach ==
    \E entry \in Values, junk \in Heap, junk2 \in Heap :
        /\ last.pre = "sequence" /\ Running
        /\ q.used < MaxUsed
        /\ q' = attach(q, entry, junk) /\ q2' = attach(q2, entry, junk2)
        /\ last' = Call("attach", entry, 0, "sequence")
        /\ UNCHANGED <<s, a, b, res, s2, heap, x, y>>

GrowRemoveCurrent ==
    \E junk \in Heap, junk2 \in Heap :
        /\ last.pre = "sequence" /\ Running
        /\ IF is_item(q) /\ is_item(q2)
           THEN /\ q' = remove_current(q, junk)
                /\ q2' = remove_current(q2, junk2)
                /\ last' = Call("remove_current", 0, 0, "sequence")
           ELSE /\ q' = q /\ q2' = q2
                /\ last' = Call("abort", 0, 0, "sequence")
        /\ UNCHANGED <<s, a, b, res, s2, heap, x, y>>

GrowNext ==
    GrowAdd \/ GrowStart \/ GrowAdvance \/ GrowInsert \/ GrowAttach
        \/ GrowRemoveCurrent

GrowSpec == GrowInit /\ [][GrowNext]_vars

\* C15: growth is invisible: after the same calls the content
\* data[0 .. used-1], the size and the current item of an object do not
\* depend on its initial capacity, that is on how often it was resized.
C15_GrowthInvisible ==
    /\ s.used = s2.used /\ Content(s) = Content(s2)
    /\ q.used = q2.used /\ Content(q) = Content(q2)
    /\ q.current_index = q2.current_index
    /\ is_item(q) = is_item(q2)
    /\ is_item(q) => current(q) = current(q2)

\* A sequence of three elements that has grown, beside one that has not
C15_Witness ==
    /\ last.op = "attach" /\ last.pre = "sequence"
    /\ q.used = 3 /\ q.capacity = 3 /\ q2.capacity = Roomy
    /\ q.current_index = 1

\* --- CopySpec: two sequence objects whose arrays are heap[x.buf] and
\* heap[y.buf], under the cursor operations, assignment and copying
\* The object with its array, as the operations above take it
View(h, o) ==
    [data |-> h[o.buf], used |-> o.used, current_index |-> o.current_index,
     capacity |-> o.capacity]

\* The object and the heap after an operation left r of View(h, o)
Stored(h, o, r) ==
    [obj |-> [buf |-> o.buf, used |-> r.used, current_index |-> r.current_index,
              capacity |-> r.capacity],
     heap |-> [h EXCEPT ![o.buf] = r.data]]

\* operator= that takes over the array of the source instead of copying
assignSeq_shallow(h, dst, source, junk) ==
    [obj |-> [buf |-> source.buf, used |-> source.used,
              current_index |-> source.current_index,
              capacity |-> source.capacity],
     heap |-> h]

\* sequence::operator=; the array allocated after delete [] data takes
\* the address that was just freed
assignSeq(h, dst, source, junk) ==
    LET grow == dst.capacity < source.capacity
        D == [data |-> IF grow THEN NewArray(source.capacity) ELSE h[dst.buf],
              used |-> source.used,
              current_index |-> source.current_index,
              capacity |-> IF grow THEN source.capacity ELSE dst.capacity]
    IN Stored(h, dst, copyInto(D, h[source.buf], 0, source.used, junk))

\* sequence::sequence(const sequence&), the new object built at address buf
copySeq(h, buf, source, junk) ==
    LET D == [data |-> NewArray(source.capacity),
              used |-> source.used,
              current_index |-> source.current_index,
              capacity |-> source.capacity]
    IN Stored(h, [buf |-> buf], copyInto(D, h[source.buf], 0, source.used, junk))

\* Bounds of CopySpec: lengths and entries of the two sequences
MaxCopyUsed == 2
MaxCopyVal == 2

Obj(t) == IF t = 1 THEN x ELSE y
Other(t) == IF t = 1 THEN y ELSE x

\* Object t and the heap become r.obj and r.heap
Becomes(t, r) ==
    /\ heap' = r.heap
    /\ IF t = 1 THEN x' = r.obj /\ y' = y ELSE y' = r.obj /\ x' = x

CopyInit ==
    /\ \E c1 \in 0..MaxInitCap, c2 \in 0..MaxInitCap :
          /\ heap = <<sequenceCtor(c1).data, sequenceCtor(c2).data>>
          /\ x = [NoObj(1) EXCEPT !.capacity = sequenceCtor(c1).capacity]
          /\ y = [NoObj(2) EXCEPT !.capacity = sequenceCtor(c2).capacity]
    /\ s = NoSet /\ a = NoSet /\ b = NoSet /\ res = NoSet
    /\ q = NoSeq /\ s2 = NoSet /\ q2 = NoSeq
    /\ last = Call("new", 0, 0, 0)

CopyStart ==
    \E t \in 1..2 :
        /\ Running
        /\ Becomes(t, Stored(heap, Obj(t), start(View(heap, Obj(t)))))
        /\ last' = Call("start", t, 0, 0)
        /\ UNCHANGED <<s, a, b, res, q, s2, q2>>

CopyAdvance ==
    \E t \in 1..2 :
        /\ Running
        /\ Becomes(t, Stored(heap, Obj(t), advance(View(heap, Obj(t)))))
        /\ last' = Call("advance", t, 0, 0)
        /\ UNCHANGED <<s, a, b, res, q, s2, q2>>

CopyInsert ==
    \E t \in 1..2, entry \in 1..MaxCopyVal, junk \in Heap :
        /\ Running
        /\ Obj(t).used < MaxCopyUsed
        /\ Becomes(t, Stored(heap, Obj(t), insert(View(heap, Obj(t)), entry, junk)))
        /\ last' = Call("insert", t, 0, 0)
        /\ UNCHANGED <<s, a, b, res, q, s2, q2>>

CopyAttach ==
    \E t \in 1..2, entry \in 1..MaxCopyVal, junk \in Heap :
        /\ Running
        /\ Obj(t).used < MaxCopyUsed
        /\ Becomes(t, Stored(heap, Obj(t), attach(View(heap, Obj(t)), entry, junk)))
        /\ last' = Call("attach", t, 0, 0)
        /\ UNCHANGED <<s, a, b, res, q, s2, q2>>

CopyRemoveCurrent ==
    \E t \in 1..2, junk \in Heap :
        /\ Running
        /\ IF is_item(View(heap, Obj(t)))
           THEN /\ Becomes(t, Stored(heap, Obj(t),
                                     remove_current(View(heap, Obj(t)), junk)))
                /\ last' = Call("remove_current", t, 0, 0)
           ELSE /\ UNCHANGED <<heap, x, y>>
                /\ last' = Call("abort", t, 0, 0)
        /\ UNCHANGED <<s, a, b, res, q, s2, q2>>

\* dst = source, for two objects and for dst = dst
Assign ==
    \E t \in 1..2, u \in 1..2, junk \in Heap :
        /\ Running
        /\ Becomes(t, assignSeq(heap, Obj(t), Obj(u), junk))
        /\ last' = Call(IF t = u THEN "assign_self" ELSE "assign", t, 0, 0)
        /\ UNCHANGED <<s, a, b, res, q, s2, q2>>

\* Object t ends (its destructor frees its array) and a copy of the other
\* object is constructed in its place
CopyConstruct ==
    \E t \in 1..2, junk \in Heap :
        /\ Running
        /\ Becomes(t, copySeq(heap, Obj(t).buf, Other(t), junk))
        /\ last' = Call("copy", t, 0, 0)
        /\ UNCHANGED <<s, a, b, res, q, s2, q2>>

CopyNext ==
    CopyStart \/ CopyAdvance \/ CopyInsert \/ CopyAttach \/ CopyRemoveCurrent
        \/ Assign \/ CopyConstruct

CopySpec == CopyInit /\ [][CopyNext]_vars

\* C14: after dst = src or the copy construction of dst from src, dst has
\* the used, the current_index and the elements [0, used) of src, its
\* capacity is at least src.used and, for assignment, at least what it was,
\* and its array is not the array of src; dst = dst changes nothing; and a
\* call on one sequence, assignment included, leaves the other as it was.
C14_CopyAssign ==
    [][\A t \in 1..2 :
          last'.arg = t =>
             LET source == View(heap, Other(t))
                 before == View(heap, Obj(t))
                 after == View(heap, Obj(t))'
             IN /\ last'.op \in {"assign", "copy"} =>
                      /\ after.used = source.used
                      /\ after.current_index = source.current_index
                      /\ Content(after) = Content(source)
                      /\ after.capacity >= source.used
                      /\ last'.op = "assign" => after.capacity >= before.capacity
                      /\ (Obj(t).buf)' /= (Other(t).buf)'
                /\ last'.op = "assign_self" => after = before
                /\ View(heap, Other(t))' = source]_vars

\* x = y with y holding one entry and no current item, in an x that keeps
\* its larger array
C14_Witness ==
    /\ last.op = "assign" /\ last.arg = 1
    /\ y.used = 1 /\ y.current_index = 1 /\ y.capacity = 1
    /\ x.used = 1 /\ x.current_index = 1 /\ x.capacity = 2
    /\ x.buf /= y.buf
    /\ Content(View(heap, x)) = Content(View(heap, y))

\* C19: in every state reached from construction by start, advance, insert,
\* attach, remove_current and assignment, 0 <= current_index <= used and
\* is_item() is true exactly when current_index < used; a sequence just
\* constructed has used = 0 and no current item.
C19_CursorInvariant ==
    \A t \in 1..2 :
        LET Q == View(heap, Obj(t))
        IN /\ 0 <= Q.current_index /\ Q.current_index <= Q.used
           /\ is_item(Q) <=> Q.current_index < Q.used
           /\ last.op = "new" => Q.used = 0 /\ ~is_item(Q)

\* y = x with x holding two entries and its cursor past the last one
C19_Witness ==
    /\ last.op = "assign" /\ last.arg = 2
    /\ y.used = 2 /\ y.current_index = 2
    /\ ~is_item(View(heap, y))

\* --- The slots an operation of sequence reads or writes
\* data[i] on an array of cap slots
Acc(i, cap) == [i |-> i, cap |-> cap]

\* The copy loop of resize: data[i] of the old array, larger_array[i]
resizeTouched(Q, new_capacity) ==
    LET c1 == IF new_capacity < Q.used THEN Q.used ELSE new_capacity
        c2 == IF c1 <= 0 THEN 1 ELSE c1
    IN UNION {{Acc(i, Q.capacity), Acc(i, c2)} : i \in 0..(Q.used - 1)}

\* The growth of a full sequence at the head of insert and attach
grownTouched(Q) ==
    IF Q.used = Q.capacity
    THEN resizeTouched(Q, (5 * Q.capacity) \div 4 + 1)
    ELSE {}

\* while (i > current_index) { data[i] = data[i - 1]; i--; } from i = used
shiftRightTouched(Q) ==
    UNION {{Acc(i, Q.capacity), Acc(i - 1, Q.capacity)} :
              i \in (Q.current_index + 1)..Q.used}

\* sequence::insert
insertTouched(Q) ==
    LET Q1 == grown(Q, Intact)
        Q2 == IF Q1.current_index = Q1.used THEN [Q1 EXCEPT !.current_index = 0] ELSE Q1
    IN grownTouched(Q) \cup shiftRightTouched(Q2)
           \cup {Acc(Q2.current_index, Q2.capacity)}

\* sequence::attach
attachTouched(Q) ==
    LET Q1 == grown(Q, Intact)
    IN grownTouched(Q) \cup
       (IF Q1.current_index = Q1.used
        THEN {Acc(Q1.current_index, Q1.capacity)}
        ELSE IF Q1.current_index = Q1.used - 1
        THEN {Acc(Q1.current_index + 1, Q1.capacity)}
        ELSE shiftRightTouched(Q1) \cup {Acc(Q1.current_index + 1, Q1.capacity)})

\* sequence::remove_current (past its assertion):
\* for (i = current_index; i < used; i++) data[i] = data[i + 1];
remove_currentTouched(Q) ==
    IF Q.current_index = Q.used - 1
    THEN {}
    ELSE UNION {{Acc(i, Q.capacity), Acc(i + 1, Q.capacity)} :
                   i \in Q.current_index..(Q.used - 1)}

\* sequence::current (past its assertion)
currentTouched(Q) == {Acc(Q.current_index, Q.capacity)}

\* The slots touched by the call recorded in last
Touched ==
    IF last.op = "insert" THEN insertTouched(Pre)
    ELSE IF last.op = "attach" THEN attachTouched(Pre)
    ELSE IF last.op = "remove_current" THEN remove_currentTouched(Pre)
    ELSE IF last.op = "current" THEN currentTouched(Pre)
    ELSE {}

\* C21: no call of insert, attach, remove_current or current reads or
\* writes data[i] with i outside [0, capacity) of the array it indexes,
\* the sequence being full or not.
C21_InBounds == \A acc \in Touched : 0 <= acc.i /\ acc.i < acc.cap

\* --- TravSpec: a program that calls the operations of one sequence and,
\* from any state it is in, runs
\*     for (q.start(); q.is_item(); q.advance()) ... q.current() ...
\* While the loop runs, last.arg counts the calls of advance, last.ret
\* lists what current() returned and last.pre is the sequence at its start.
TravInit ==
    /\ \E c \in 0..MaxInitCap : q = sequenceCtor(c)
    /\ s = NoSet /\ a = NoSet /\ b = NoSet /\ res = NoSet /\ TwinsIdle
    /\ last = Call("new", 0, <<>>, NoSeq)

\* The program is between two traversals
Idle == Running /\ last.op /= "loop"

TravMove ==
    /\ Idle
    /\ \/ q' = start(q) /\ last' = Call("start", 0, <<>>, NoSeq)
       \/ q' = advance(q) /\ last' = Call("advance", 0, <<>>, NoSeq)
    /\ UNCHANGED <<s, a, b, res, twins>>

TravInsert ==
    \E entry \in Values, junk \in Heap :
        /\ Idle
        /\ q.used < MaxUsed
        /\ q' = insert(q, entry, junk)
        /\ last' = Call("insert", 0, <<>>, NoSeq)
        /\ UNCHANGED <<s, a, b, res, twins>>

TravAttach ==
    \E entry \in Values, junk \in Heap :
        /\ Idle
        /\ q.used < MaxUsed
        /\ q' = attach(q, entry, junk)
        /\ last' = Call("attach", 0, <<>>, NoSeq)
        /\ UNCHANGED <<s, a, b, res, twins>>

TravRemoveCurrent ==
    \E junk \in Heap :
        /\ Idle
        /\ IF is_item(q)
           THEN /\ q' = remove_current(q, junk)
                /\ last' = Call("remove_current", 0, <<>>, NoSeq)
           ELSE /\ q' = q
                /\ last' = Call("abort", 0, <<>>, NoSeq)
        /\ UNCHANGED <<s, a, b, res, twins>>

\* q.start() at the head of the loop
TravStart ==
    /\ Idle
    /\ q' = start(q)
    /\ last' = Call("loop", 0, <<>>, q)
    /\ UNCHANGED <<s, a, b, res, twins>>

\* One test of q.is_item(); when it holds, q.current() and q.advance()
TravStep ==
    /\ last.op = "loop"
    /\ IF is_item(q)
       THEN /\ q' = advance(q)
            /\ last' = Call("loop", last.arg + 1, Append(last.ret, current(q)),
                            last.pre)
       ELSE /\ q' = q
            /\ last' = Call("done", last.arg, last.ret, last.pre)
    /\ UNCHANGED <<s, a, b, res, twins>>

TravNext ==
    TravMove \/ TravInsert \/ TravAttach \/ TravRemoveCurrent \/ TravStart
        \/ TravStep

\* The loop is sequential code: once entered it keeps taking its steps
TravSpec == TravInit /\ [][TravNext]_vars /\ WF_vars(TravStep)

\* C22: a traversal started in any reachable state with used = n ends,
\* after exactly n calls of advance; current() before the k-th advance is
\* the element at index k - 1; at the end is_item() is false; and the
\* elements and used are what they were when it started.
C22_Traversal ==
    /\ [](last.op \in {"loop", "done"} =>
             /\ last.arg <= Pre.used
             /\ last.ret = SubSeq(Content(Pre), 1, last.arg)
             /\ q.used = Pre.used
             /\ Content(q) = Content(Pre))
    /\ [](last.op = "done" => last.arg = Pre.used /\ ~is_item(q))
    /\ (last.op = "loop") ~> (last.op = "done")

\* The end of a traversal of three elements that was started with the
\* cursor on the second one
C22_Witness ==
    /\ last.op = "done" /\ last.arg = 3
    /\ Pre.used = 3 /\ Pre.current_index = 1
    /\ Len(last.ret) = 3

====
